---- MODULE Spec2Model ----
(***************************************************************************)
(* A model of src/embeddings.py: the PatternSearcher (corpus, embedding    *)
(* index, pickle cache) and the pure functions it is built from.           *)
(*                                                                         *)
(* Scores are cosine similarities in hundredths (100 stands for 1.0): the  *)
(* embedding vectors of the model have integer Euclidean norms, so every   *)
(* cosine is an exact multiple of 1/100.  A float NaN is the value NaN.    *)
(***************************************************************************)
EXTENDS Integers, Sequences, FiniteSets, TLC

\* ------------------------------------------------------------------ bounds
\* Largest number of records in a corpus.
MaxN == 2

\* Record identifiers, the texts a record may carry (the output of
\* create_pattern_text), and the texts a query may be.
PatternIds == {"a", "b", "c"}
RecordTexts == {1, 2}
QueryTexts == {1, 3, 4}
TopKs == (-1) .. (MaxN + 1)
MinScores == {0, 97}

\* ------------------------------------------------------------- python values
\* Python's None in an Optional[np.ndarray] field, and a resident matrix.
None == [isNone |-> TRUE, rows |-> <<>>]
Matrix(m) == [isNone |-> FALSE, rows |-> m]
\* A float NaN among the scores: a value no cosine (-100 .. 100) takes.
NaN == 999

Min(x, y) == IF x < y THEN x ELSE y
Max(x, y) == IF x < y THEN y ELSE x

\* seq[start:stop] of Python for start >= 0 and any integer stop.
SliceIndex(n, i) == IF i < 0 THEN Max(n + i, 0) ELSE Min(i, n)
PySlice(s, start, stop) ==
    SubSeq(s, SliceIndex(Len(s), start) + 1, SliceIndex(Len(s), stop))

\* seq[::-1]
Reverse(s) == [i \in 1 .. Len(s) |-> s[Len(s) + 1 - i]]

\* ------------------------------------------------------- embedding provider
\* SentenceTransformer.encode on one text: a fixed vector per text.
encode(text) ==
    CASE text = 1 -> <<3, 4>>
      [] text = 2 -> <<4, 3>>
      [] text = 3 -> <<-4, 3>>
      [] text = 4 -> <<-3, -4>>
      [] OTHER -> <<0, 0>>

create_pattern_text(pattern) == pattern.text

\* model.encode(texts): one row per pattern, in input order.
compute_embeddings(patterns) ==
    [i \in 1 .. Len(patterns) |-> encode(create_pattern_text(patterns[i]))]

compute_query_embedding(query) == encode(query)

\* ------------------------------------------------------ similarity function
Dot(a, b) == a[1] * b[1] + a[2] * b[2]
\* np.linalg.norm: exact on the vectors above (norm 0, 5 or 10).
Norm(a) == CHOOSE n \in 0 .. 20 : n * n = Dot(a, a)

\* a / norm(a), b / norm(b) row by row, then the dot products.  A zero norm
\* divides 0 by 0: the affected scores are NaN.
cosine_similarity(a, b) ==
    [i \in 1 .. Len(b) |->
        IF Norm(a) = 0 \/ Norm(b[i]) = 0
        THEN NaN
        ELSE (Dot(a, b[i]) * 100) \div (Norm(a) * Norm(b[i]))]

\* Float comparison: every comparison with NaN is false.
ScoreGE(x, y) == x # NaN /\ y # NaN /\ x >= y
\* The order np.argsort sorts by: ascending, NaN last.
SortLE(x, y) == y = NaN \/ (x # NaN /\ x <= y)

Perms(n) == {p \in [1 .. n -> 1 .. n] : \A i, j \in 1 .. n : i # j => p[i] # p[j]}

\* The outcomes of np.argsort(similarities) with the default kind
\* (quicksort, not stable): every ascending arrangement of the indices.
argsort(sims) ==
    {p \in Perms(Len(sims)) :
        \A i, j \in 1 .. Len(sims) : i < j => SortLE(sims[p[i]], sims[p[j]])}

\* ------------------------------------------------------------------- corpus
Record(id, text) == [id |-> id, text |-> text]
DistinctIds(p) ==
    \A i, j \in 1 .. Len(p) : i # j => p[i].id # p[j].id
Corpora ==
    UNION {{p \in [1 .. n -> [id : PatternIds, text : RecordTexts]] : DistinctIds(p)}
           : n \in 1 .. MaxN}

pattern_ids(patterns) == [i \in 1 .. Len(patterns) |-> patterns[i].id]

\* -------------------------------------------------------------------- state
VARIABLES
    patterns,     \* self.patterns: the corpus loaded at construction
    embeddings,   \* self.embeddings: None or the resident matrix
    model,        \* self.model: "None" or "model" (the loaded instance)
    cacheFile,    \* the file at self.cache_path
    last,         \* what the last call did and returned (observation)
    loadCount,    \* model instances created in this process
    cosCall,      \* one call of cosine_similarity: arguments and return value
    ctor,         \* one PatternSearcher(): the corpus source and the outcome
    pc,           \* per caller, where its call on the shared searcher stands
    seen          \* per caller, the cache file content its _load_cache read

vars == <<patterns, embeddings, model, cacheFile, last, loadCount, cosCall, ctor, pc, seen>>

\* The state of the specifications other than Spec.
aux == <<cosCall, ctor, pc, seen>>

Self == [patterns |-> patterns, embeddings |-> embeddings, model |-> model]

\* ---------------------------------------------------------------- the cache
\* What the file at cache_path may hold: nothing, bytes pickle cannot load,
\* a pickled object that is no mapping, or a pickled dict.
CacheAbsent == [kind |-> "absent"]
CacheCorrupt == [kind |-> "corrupt"]
CacheObject == [kind |-> "object"]
CacheDict(d) == [kind |-> "dict", data |-> d]

\* The try block of _load_cache: [ok, embeddings, raised] where embeddings
\* is self.embeddings after it and raised the exception that left it.
load_cache_try(self, file) ==
    LET miss(exc) == [ok |-> FALSE, embeddings |-> self.embeddings, raised |-> exc] IN
    IF file.kind = "corrupt" THEN miss("UnpicklingError")     \* pickle.load
    ELSE IF file.kind = "object" THEN miss("AttributeError")  \* cache.get
    ELSE IF /\ "pattern_ids" \in DOMAIN file.data
            /\ file.data.pattern_ids = pattern_ids(self.patterns)
         THEN IF "embeddings" \in DOMAIN file.data
              THEN [ok |-> TRUE, embeddings |-> file.data.embeddings, raised |-> ""]
              ELSE miss("KeyError")                           \* cache["embeddings"]
         ELSE miss("")

\* _load_cache comparing the cached ids with the records themselves
\* (`== self.patterns`): a list of ids never equals a list of records.
load_cache_compares_records(self, file) ==
    [ok |-> FALSE, embeddings |-> self.embeddings, raised |-> ""]

\* _load_cache comparing the cached ids as a set: blind to a reordering.
load_cache_unordered(self, file) ==
    IF /\ file.kind = "dict"
       /\ DOMAIN file.data = {"pattern_ids", "embeddings"}
       /\ {file.data.pattern_ids[i] : i \in 1 .. Len(file.data.pattern_ids)}
              = {self.patterns[i].id : i \in 1 .. Len(self.patterns)}
    THEN [ok |-> TRUE, embeddings |-> file.data.embeddings, raised |-> ""]
    ELSE [ok |-> FALSE, embeddings |-> self.embeddings, raised |-> ""]

\* _load_cache without its `except Exception: pass`.
load_cache_no_except(self, file) ==
    IF file.kind = "absent"
    THEN [ok |-> FALSE, embeddings |-> self.embeddings, raised |-> ""]
    ELSE load_cache_try(self, file)

\* _load_cache: False when the file does not exist; `except Exception: pass`
\* turns every exception of the try block into False.
load_cache(self, file) ==
    IF file.kind = "absent"
    THEN [ok |-> FALSE, embeddings |-> self.embeddings, raised |-> ""]
    ELSE [load_cache_try(self, file) EXCEPT !.raised = ""]

\* _save_cache run before `self.embeddings = ...`: the matrix not yet there.
save_cache_before_assignment(self) ==
    CacheDict([pattern_ids |-> pattern_ids(self.patterns), embeddings |-> None])

\* _save_cache: the file after pickle.dump.
save_cache(self) ==
    CacheDict([pattern_ids |-> pattern_ids(self.patterns),
               embeddings |-> self.embeddings])

\* get_embedding_model(): the instance, or the failure to load it.
get_embedding_model(loadOk) ==
    IF loadOk THEN [model |-> "model", raised |-> ""]
    ELSE [model |-> "None", raised |-> "ModelLoadError"]

\* _ensure_model calling get_embedding_model() a second time when the first
\* call failed.
ensure_model_retries(self, loadOk) ==
    IF self.model = "None"
    THEN LET g == get_embedding_model(loadOk) IN
         [self |-> [self EXCEPT !.model = g.model], raised |-> g.raised,
          loads |-> IF g.raised = "" THEN 1 ELSE 2]
    ELSE [self |-> self, raised |-> "", loads |-> 0]

\* _ensure_model dropping the resident matrix when the load fails.
ensure_model_drops_index(self, loadOk) ==
    IF self.model = "None"
    THEN LET g == get_embedding_model(loadOk) IN
         [self |-> [self EXCEPT !.model = g.model,
                                !.embeddings = IF g.raised = "" THEN @ ELSE None],
          raised |-> g.raised, loads |-> 1]
    ELSE [self |-> self, raised |-> "", loads |-> 0]

\* _ensure_model putting the record list in reverse order (self.patterns
\* reversed in place) on its way.
ensure_model_reverses_corpus(self, loadOk) ==
    IF self.model = "None"
    THEN LET g == get_embedding_model(loadOk) IN
         [self |-> [self EXCEPT !.model = g.model, !.patterns = Reverse(@)],
          raised |-> g.raised, loads |-> 1]
    ELSE [self |-> self, raised |-> "", loads |-> 0]

\* _ensure_model: loads only when self.model is None.
ensure_model(self, loadOk) ==
    IF self.model = "None"
    THEN LET g == get_embedding_model(loadOk) IN
         [self |-> [self EXCEPT !.model = g.model], raised |-> g.raised, loads |-> 1]
    ELSE [self |-> self, raised |-> "", loads |-> 0]

\* `if model is None: model = get_embedding_model()` of compute_embeddings
\* and compute_query_embedding: the loads of a call given the model m.
fallback_loads(m) == IF m = "None" THEN 1 ELSE 0

\* compute_embeddings(self.patterns) and compute_query_embedding(query)
\* called without the model argument.
model_argument_omitted(self) == "None"

\* The model argument of `compute_embeddings(self.patterns, self.model)` and
\* `compute_query_embedding(query, self.model)`.
model_argument(self) == self.model

\* `if self._load_cache()`: the force flag forgotten.
use_cache_ignores_force(force, lc) == lc.ok

\* `if not force and self._load_cache()`: whether build_index adopts the cache.
use_cache(force, lc) == ~force /\ lc.ok

\* build_index(force): the searcher and the cache file after the call, the
\* exception it raised ("" for a normal return), and what it did on the way.
build_index(self, file, force, loadOk) ==
    LET lc == load_cache(self, file) IN
    IF ~force /\ lc.raised # ""
    THEN [self |-> [self EXCEPT !.embeddings = lc.embeddings], file |-> file,
          raised |-> lc.raised, loads |-> 0, encoded |-> <<>>, hit |-> FALSE, writes |-> 0]
    ELSE IF use_cache(force, lc)
    THEN [self |-> [self EXCEPT !.embeddings = lc.embeddings], file |-> file,
          raised |-> "", loads |-> 0, encoded |-> <<>>, hit |-> TRUE, writes |-> 0]
    ELSE LET em == ensure_model(self, loadOk) IN
         IF em.raised # ""
         THEN [self |-> em.self, file |-> file, raised |-> em.raised,
               loads |-> em.loads, encoded |-> <<>>, hit |-> FALSE, writes |-> 0]
         ELSE LET built == [em.self EXCEPT
                               !.embeddings = Matrix(compute_embeddings(em.self.patterns))]
              IN [self |-> built, file |-> save_cache(built), raised |-> "",
                  loads |-> em.loads + fallback_loads(model_argument(em.self)),
                  encoded |-> [i \in 1 .. Len(built.patterns) |->
                                  create_pattern_text(built.patterns[i])],
                  hit |-> FALSE, writes |-> 1]

\* A call that did not run build_index.
NoBuild(self, file) ==
    [self |-> self, file |-> file, raised |-> "", loads |-> 0, encoded |-> <<>>,
     hit |-> FALSE, writes |-> 0]

\* The lazy build left out.
ensure_index_skipped(self, file, loadOk) == NoBuild(self, file)

\* build_index() on every call, resident index or not.
ensure_index_always(self, file, loadOk) == build_index(self, file, FALSE, loadOk)

\* The lazy build followed by `self._ensure_model()`, as search has it.
ensure_index_and_model(self, file, loadOk) ==
    LET b == IF self.embeddings = None THEN build_index(self, file, FALSE, loadOk)
             ELSE NoBuild(self, file)
    IN IF b.raised # "" THEN b
       ELSE LET em == ensure_model(b.self, loadOk) IN
            [b EXCEPT !.self = em.self, !.raised = em.raised, !.loads = b.loads + em.loads]

\* `if self.embeddings is None: self.build_index()`
ensure_index(self, file, loadOk) ==
    IF self.embeddings = None THEN build_index(self, file, FALSE, loadOk)
    ELSE NoBuild(self, file)

\* ------------------------------------------------------------------- search
\* Lines 172-176 of search: the implicit build, _ensure_model, and the model
\* handed to compute_query_embedding.
search_prepare(self, file, loadOk) ==
    LET b == ensure_index(self, file, loadOk) IN
    IF b.raised # "" THEN b
    ELSE LET em == ensure_model(b.self, loadOk) IN
         [b EXCEPT !.self = em.self, !.raised = em.raised,
                   !.loads = b.loads + em.loads
                             + (IF em.raised = "" THEN fallback_loads(model_argument(em.self))
                                ELSE 0)]

\* The ranking without the argsort: the first top_k records of the corpus.
search_top_indices_unsorted(order, top_k) ==
    [i \in 1 .. SliceIndex(Len(order), top_k) |-> i]

\* The ranking without its [::-1]: ascending scores.
search_top_indices_ascending(order, top_k) == PySlice(order, 0, top_k)

\* np.argsort(similarities)[::-1][:top_k], given argsort's outcome.
search_top_indices(order, top_k) == PySlice(Reverse(order), 0, top_k)

\* The loop of search with `score > min_score`.
search_results_strict(pats, sims, top, min_score) ==
    SelectSeq([i \in 1 .. Len(top) |-> [pattern |-> pats[top[i]], score |-> sims[top[i]]]],
              LAMBDA r : r.score # NaN /\ min_score # NaN /\ r.score > min_score)

\* The loop of search: (pattern, score) for each index whose score is at
\* least min_score.
search_results(pats, sims, top, min_score) ==
    SelectSeq([i \in 1 .. Len(top) |-> [pattern |-> pats[top[i]], score |-> sims[top[i]]]],
              LAMBDA r : ScoreGE(r.score, min_score))

\* ----------------------------------------------------- get_similar_patterns
\* The scan with idx starting at the first row instead of None.
find_index_default_first(pats, pattern_id) ==
    IF \E i \in 1 .. Len(pats) : pats[i].id = pattern_id
    THEN CHOOSE i \in 1 .. Len(pats) :
            /\ pats[i].id = pattern_id
            /\ \A j \in 1 .. i - 1 : pats[j].id # pattern_id
    ELSE 1

\* The scan for pattern_id: the first matching index, 0 for `idx is None`.
find_index(pats, pattern_id) ==
    IF \E i \in 1 .. Len(pats) : pats[i].id = pattern_id
    THEN CHOOSE i \in 1 .. Len(pats) :
            /\ pats[i].id = pattern_id
            /\ \A j \in 1 .. i - 1 : pats[j].id # pattern_id
    ELSE 0

\* np.argsort(similarities)[::-1][1:top_k+1], given argsort's outcome.
similar_top_indices(order, top_k) == PySlice(Reverse(order), 1, top_k + 1)

\* The loop of get_similar_patterns with search's `score >= min_score` at
\* its default 0.
similar_results_filtered(pats, sims, top) ==
    SelectSeq([i \in 1 .. Len(top) |-> [pattern |-> pats[top[i]], score |-> sims[top[i]]]],
              LAMBDA r : ScoreGE(r.score, 0))

similar_results(pats, sims, top) ==
    [i \in 1 .. Len(top) |-> [pattern |-> pats[top[i]], score |-> sims[top[i]]]]

\* -------------------------------------------------------------- observation
NoArgs == [force |-> FALSE, query |-> 0, top_k |-> 0, min_score |-> 0, pattern_id |-> ""]

\* The record of one call: the searcher and the cache before it, its
\* arguments, the exception it raised ("" when it returned), the value it
\* returned, the matrix handed to cosine_similarity (None when no scoring
\* ran) and the work of the build it ran.
Obs(op, args, b, raised, result, scored, order) ==
    [op |-> op, args |-> args, raised |-> raised, result |-> result,
     scored |-> scored, order |-> order,
     loads |-> b.loads, encoded |-> b.encoded, hit |-> b.hit, writes |-> b.writes,
     before |-> [patterns |-> patterns, embeddings |-> embeddings, model |-> model,
                 cacheFile |-> cacheFile]]

\* No call is in progress.
IdleObs ==
    [op |-> "idle", args |-> NoArgs, raised |-> "", result |-> <<>>,
     scored |-> None, order |-> <<>>, loads |-> 0, encoded |-> <<>>,
     hit |-> FALSE, writes |-> 0,
     before |-> [patterns |-> <<>>, embeddings |-> None, model |-> "None",
                 cacheFile |-> [kind |-> "absent"]]]

\* The model instances a call created: its loads, less the one that failed.
Created(obs) == obs.loads - (IF obs.raised = "ModelLoadError" THEN 1 ELSE 0)

Commit(b, obs) ==
    /\ patterns' = b.self.patterns
    /\ embeddings' = b.self.embeddings
    /\ model' = b.self.model
    /\ cacheFile' = b.file
    /\ last' = obs
    /\ loadCount' = loadCount + Created(obs)
    /\ UNCHANGED aux

\* ------------------------------------------------- values outside a call
\* The callers that share the searcher and the cache file.
Callers == {1, 2}

\* No cosine_similarity call, a searcher constructed over a well-formed
\* source, a caller with no call in progress, a caller that read no cache.
NoCall == [a |-> <<>>, b |-> <<>>, out |-> <<>>, called |-> FALSE]
Constructed == [source |-> [kind |-> "json"], state |-> "constructed", raised |-> ""]
AtRest == [at |-> "rest", op |-> "", force |-> FALSE, cache |-> CacheAbsent]
NoRead == [kind |-> "unread"]

\* ------------------------------------------------------------------ actions
\* No call is in progress: the caller has taken the last call's outcome.
Returned == last.op = "idle"

\* Whether loading the model succeeds, should this call load it.
LoadOutcomes == IF model = "None" THEN BOOLEAN ELSE {TRUE}

Init ==
    /\ patterns \in Corpora
    /\ embeddings = None
    /\ model = "None"
    /\ cacheFile = CacheAbsent
    /\ last = IdleObs
    /\ loadCount = 0
    /\ cosCall = NoCall
    /\ ctor = Constructed
    /\ pc = [t \in Callers |-> AtRest]
    /\ seen = [t \in Callers |-> NoRead]

\* A new process: PatternSearcher() over the corpus source as it is now.
Restart ==
    \E c \in Corpora :
        /\ Returned
        /\ patterns' = c
        /\ embeddings' = None
        /\ model' = "None"
        /\ UNCHANGED cacheFile
        /\ last' = IdleObs
        /\ loadCount' = 0
        /\ UNCHANGED aux

\* The cache file is deleted, truncated, or replaced by something else.
DamagedFiles(file) ==
    {CacheAbsent, CacheCorrupt, CacheObject, CacheDict([other |-> 0])}
    \cup (IF file.kind = "dict" /\ DOMAIN file.data = {"pattern_ids", "embeddings"}
          THEN {CacheDict([pattern_ids |-> file.data.pattern_ids])}
          ELSE {})

DamageCache ==
    \E f \in DamagedFiles(cacheFile) :
        /\ Returned
        /\ f # cacheFile
        /\ cacheFile' = f
        /\ UNCHANGED <<patterns, embeddings, model, loadCount>>
        /\ UNCHANGED aux
        /\ last' = IdleObs

BuildIndex ==
    \E force \in BOOLEAN, loadOk \in LoadOutcomes :
        LET b == build_index(Self, cacheFile, force, loadOk) IN
        Returned /\ Commit(b, Obs("build_index", [NoArgs EXCEPT !.force = force], b,
                      b.raised, <<>>, None, <<>>))

SearchCall(query, top_k, min_score, loadOk) ==
    LET b == search_prepare(Self, cacheFile, loadOk)
        args == [NoArgs EXCEPT !.query = query, !.top_k = top_k, !.min_score = min_score]
    IN
    IF b.raised # ""
    THEN Commit(b, Obs("search", args, b, b.raised, <<>>, None, <<>>))
    ELSE IF b.self.embeddings = None
    THEN Commit(b, Obs("search", args, b, "TypeError", <<>>, None, <<>>))
    ELSE LET sims == cosine_similarity(compute_query_embedding(query),
                                       b.self.embeddings.rows)
         IN \E order \in argsort(sims) :
                Commit(b, Obs("search", args, b, "",
                              search_results(b.self.patterns, sims,
                                             search_top_indices(order, top_k), min_score),
                              b.self.embeddings, order))

Search ==
    \E query \in QueryTexts, top_k \in TopKs, min_score \in MinScores, loadOk \in LoadOutcomes :
        Returned /\ SearchCall(query, top_k, min_score, loadOk)

GetSimilarCall(pattern_id, top_k, loadOk) ==
    LET b == ensure_index(Self, cacheFile, loadOk)
        args == [NoArgs EXCEPT !.pattern_id = pattern_id, !.top_k = top_k]
        idx == find_index(b.self.patterns, pattern_id)
    IN
    IF b.raised # ""
    THEN Commit(b, Obs("get_similar_patterns", args, b, b.raised, <<>>, None, <<>>))
    ELSE IF idx = 0
    THEN Commit(b, Obs("get_similar_patterns", args, b, "ValueError", <<>>, None, <<>>))
    ELSE IF b.self.embeddings = None
    THEN Commit(b, Obs("get_similar_patterns", args, b, "TypeError", <<>>, None, <<>>))
    ELSE LET sims == cosine_similarity(b.self.embeddings.rows[idx],
                                       b.self.embeddings.rows)
         IN \E order \in argsort(sims) :
                Commit(b, Obs("get_similar_patterns", args, b, "",
                              similar_results(b.self.patterns, sims,
                                              similar_top_indices(order, top_k)),
                              b.self.embeddings, order))

GetSimilarPatterns ==
    \E pattern_id \in PatternIds, top_k \in TopKs, loadOk \in LoadOutcomes :
        Returned /\ GetSimilarCall(pattern_id, top_k, loadOk)

\* The caller takes the outcome of the call.
Return ==
    /\ ~Returned
    /\ UNCHANGED <<patterns, embeddings, model, cacheFile, loadCount>>
    /\ UNCHANGED aux
    /\ last' = IdleObs

Next ==
    \/ Return
    \/ Restart
    \/ DamageCache
    \/ BuildIndex
    \/ Search
    \/ GetSimilarPatterns

Spec == Init /\ [][Next]_vars

\* ------------------------------------------- cosine_similarity on its own
\* The vectors a caller may pass: the provider's outputs and the zero vector.
Vectors == {encode(t) : t \in 0 .. 4}
Matrices == UNION {[1 .. n -> Vectors] : n \in 1 .. MaxN}

\* The searcher at rest, for the specifications that do not call it.
SearcherAtRest ==
    /\ patterns = <<Record("a", 1)>>
    /\ embeddings = None
    /\ model = "None"
    /\ cacheFile = CacheAbsent
    /\ last = IdleObs
    /\ loadCount = 0

InitCos ==
    /\ SearcherAtRest
    /\ cosCall \in [a : Vectors, b : Matrices, out : {<<>>}, called : {FALSE}]
    /\ ctor = Constructed
    /\ pc = [t \in Callers |-> AtRest]
    /\ seen = [t \in Callers |-> NoRead]

CosineSimilarity ==
    /\ ~cosCall.called
    /\ cosCall' = [cosCall EXCEPT !.out = cosine_similarity(cosCall.a, cosCall.b),
                                  !.called = TRUE]
    /\ UNCHANGED <<patterns, embeddings, model, cacheFile, last, loadCount, ctor, pc, seen>>

NextCos == CosineSimilarity

SpecCos == InitCos /\ [][NextCos]_vars

\* ---------------------------------------------------------- construction
\* What the file at patterns_path may be: missing, text that is no JSON, a
\* JSON object without the key "patterns", or a JSON object whose "patterns"
\* is a list of records, each with or without the field id.
SourceRecords == [id : PatternIds, text : RecordTexts] \cup [text : RecordTexts]
SourceLists == UNION {[1 .. n -> SourceRecords] : n \in 0 .. MaxN}
Sources ==
    {[kind |-> "missing"], [kind |-> "notjson"], [kind |-> "json", data |-> [other |-> 0]]}
    \cup {[kind |-> "json", data |-> [patterns |-> l]] : l \in SourceLists}

\* _load_patterns: open, json.load, data["patterns"]; nothing else is looked at.
load_patterns(source) ==
    IF source.kind = "missing" THEN [patterns |-> <<>>, raised |-> "FileNotFoundError"]
    ELSE IF source.kind = "notjson" THEN [patterns |-> <<>>, raised |-> "JSONDecodeError"]
    ELSE IF "patterns" \notin DOMAIN source.data THEN [patterns |-> <<>>, raised |-> "KeyError"]
    ELSE [patterns |-> source.data.patterns, raised |-> ""]

InitLoad ==
    /\ patterns = <<>>
    /\ embeddings = None
    /\ model = "None"
    /\ cacheFile = CacheAbsent
    /\ last = IdleObs
    /\ loadCount = 0
    /\ cosCall = NoCall
    /\ ctor \in [source : Sources, state : {"pending"}, raised : {""}]
    /\ pc = [t \in Callers |-> AtRest]
    /\ seen = [t \in Callers |-> NoRead]

\* PatternSearcher(): the fields set, then _load_patterns; an exception of
\* _load_patterns leaves no searcher.
PatternSearcherInit ==
    /\ ctor.state = "pending"
    /\ LET r == load_patterns(ctor.source) IN
       /\ patterns' = r.patterns
       /\ ctor' = [ctor EXCEPT !.state = IF r.raised = "" THEN "constructed" ELSE "failed",
                               !.raised = r.raised]
    /\ embeddings' = None
    /\ model' = "None"
    /\ UNCHANGED <<cacheFile, last, loadCount, cosCall, pc, seen>>

NextLoad == PatternSearcherInit

SpecLoad == InitLoad /\ [][NextLoad]_vars

\* ------------------------------------- get_similar_patterns on its own
\* Corpora whose records may be far from each other: text 4 scores -1.0
\* against text 1 and -0.96 against text 2.
SimilarTexts == {1, 2, 4}
SimilarCorpora ==
    UNION {{p \in [1 .. n -> [id : PatternIds, text : SimilarTexts]] : DistinctIds(p)}
           : n \in 1 .. MaxN}

\* A searcher just constructed over such a corpus, no cache file yet.
InitSimilar ==
    /\ patterns \in SimilarCorpora
    /\ embeddings = None
    /\ model = "None"
    /\ cacheFile = CacheAbsent
    /\ last = IdleObs
    /\ loadCount = 0
    /\ cosCall = NoCall
    /\ ctor = Constructed
    /\ pc = [t \in Callers |-> AtRest]
    /\ seen = [t \in Callers |-> NoRead]

NextSimilar ==
    \/ GetSimilarPatterns
    \/ Return

SpecSimilar == InitSimilar /\ [][NextSimilar]_vars

\* ------------------------------------------------- calls that overlap
\* Several callers use one searcher and one cache file with nothing between
\* them: PatternSearcher takes no lock, so a call advances one statement at a
\* time and the statements of different callers interleave.  pc[t].at is the
\* statement caller t runs next:
\*   "check"   `if self.embeddings is None`            (search, line 172;
\*                                                      get_similar_patterns, 205)
\*   "load"    `if not force and self._load_cache()`   (build_index, line 145)
\*   "model"   `self._ensure_model()`                  (build_index, line 149)
\*   "compute" `self.embeddings = compute_embeddings`  (build_index, line 151)
\*   "open"    the dict and `open(cache_path, "wb")`   (_save_cache, 125-129)
\*   "dump"    `pickle.dump(cache, f)`                 (_save_cache, line 130)
\*   "qmodel"  `self._ensure_model()`                  (search, line 175)
\*   "score"   the scoring over self.embeddings        (search, 176-177;
\*                                                      get_similar_patterns, 218-219)
Ops == {"build_index", "search", "get_similar_patterns"}

\* Where a call goes on once its build_index has returned (or was not needed).
after_build(p) ==
    [p EXCEPT !.at = CASE p.op = "search" -> "qmodel"
                       [] p.op = "get_similar_patterns" -> "score"
                       [] OTHER -> "rest"]

Others == <<last, loadCount, cosCall, ctor>>

\* Caller t moves on to p; what its _load_cache read is forgotten.
Goto(t, p) ==
    /\ pc' = [pc EXCEPT ![t] = p]
    /\ seen' = [seen EXCEPT ![t] = NoRead]

InitConc ==
    /\ patterns \in Corpora
    /\ embeddings = None
    /\ model = "None"
    /\ cacheFile \in {CacheAbsent,
                      save_cache([patterns |-> patterns,
                                  embeddings |-> Matrix(compute_embeddings(patterns))])}
    /\ last = IdleObs
    /\ loadCount = 0
    /\ cosCall = NoCall
    /\ ctor = Constructed
    /\ pc = [t \in Callers |-> AtRest]
    /\ seen = [t \in Callers |-> NoRead]

\* A caller enters build_index(force), search or get_similar_patterns.
Call(t) ==
    \E op \in Ops, force \in BOOLEAN :
        /\ pc[t].at = "rest"
        /\ force => op = "build_index"
        /\ Goto(t, [AtRest EXCEPT !.op = op, !.force = force,
                                  !.at = IF op # "build_index" THEN "check"
                                         ELSE IF force THEN "model" ELSE "load"])
        /\ UNCHANGED <<patterns, embeddings, model, cacheFile>>
        /\ UNCHANGED Others

\* `if self.embeddings is None: self.build_index()`
CheckIndex(t) ==
    /\ pc[t].at = "check"
    /\ Goto(t, IF embeddings = None THEN [pc[t] EXCEPT !.at = "load"] ELSE after_build(pc[t]))
    /\ UNCHANGED <<patterns, embeddings, model, cacheFile>>
    /\ UNCHANGED Others

\* `self._load_cache()`: reads the file as it is at this moment.
LoadCache(t) ==
    /\ pc[t].at = "load"
    /\ LET lc == load_cache(Self, cacheFile) IN
       /\ embeddings' = lc.embeddings
       /\ pc' = [pc EXCEPT ![t] = IF lc.ok THEN after_build(pc[t])
                                  ELSE [pc[t] EXCEPT !.at = "model"]]
    /\ seen' = [seen EXCEPT ![t] = cacheFile]
    /\ UNCHANGED <<patterns, model, cacheFile>>
    /\ UNCHANGED Others

\* `self._ensure_model()` of build_index and of search; a failed load ends
\* the call.
EnsureModel(t) ==
    \E loadOk \in LoadOutcomes :
        /\ pc[t].at \in {"model", "qmodel"}
        /\ LET em == ensure_model(Self, loadOk) IN
           /\ model' = em.self.model
           /\ Goto(t, IF em.raised # "" THEN AtRest
                      ELSE [pc[t] EXCEPT !.at = IF @ = "model" THEN "compute" ELSE "score"])
        /\ UNCHANGED <<patterns, embeddings, cacheFile>>
        /\ UNCHANGED Others

\* `self.embeddings = compute_embeddings(self.patterns, self.model)`
ComputeEmbeddings(t) ==
    /\ pc[t].at = "compute"
    /\ embeddings' = Matrix(compute_embeddings(patterns))
    /\ Goto(t, [pc[t] EXCEPT !.at = "open"])
    /\ UNCHANGED <<patterns, model, cacheFile>>
    /\ UNCHANGED Others

\* _save_cache up to `open(self.cache_path, "wb")`: the dict is built and the
\* file is truncated in place; until the dump it holds no loadable pickle.
OpenCache(t) ==
    /\ pc[t].at = "open"
    /\ cacheFile' = CacheCorrupt
    /\ Goto(t, [pc[t] EXCEPT !.at = "dump", !.cache = save_cache(Self)])
    /\ UNCHANGED <<patterns, embeddings, model>>
    /\ UNCHANGED Others

\* `pickle.dump(cache, f)` and the close of the file; build_index returns.
DumpCache(t) ==
    /\ pc[t].at = "dump"
    /\ cacheFile' = pc[t].cache
    /\ Goto(t, [after_build(pc[t]) EXCEPT !.cache = CacheAbsent])
    /\ UNCHANGED <<patterns, embeddings, model>>
    /\ UNCHANGED Others

\* The scoring of search and get_similar_patterns over self.embeddings; the
\* call returns.
Score(t) ==
    /\ pc[t].at = "score"
    /\ Goto(t, AtRest)
    /\ UNCHANGED <<patterns, embeddings, model, cacheFile>>
    /\ UNCHANGED Others

NextConc ==
    \E t \in Callers :
        \/ Call(t)
        \/ CheckIndex(t)
        \/ LoadCache(t)
        \/ EnsureModel(t)
        \/ ComputeEmbeddings(t)
        \/ OpenCache(t)
        \/ DumpCache(t)
        \/ Score(t)

SpecConc == InitConc /\ [][NextConc]_vars

\* =================================================================== claims
\* A cache file as _save_cache writes it, holding the id sequence of pats.
WrittenFor(file, pats) ==
    /\ file.kind = "dict"
    /\ DOMAIN file.data = {"pattern_ids", "embeddings"}
    /\ file.data.pattern_ids = pattern_ids(pats)

\* A cache file as _save_cache writes it, holding another id sequence.
StaleFor(file, pats) ==
    /\ file.kind = "dict"
    /\ DOMAIN file.data = {"pattern_ids", "embeddings"}
    /\ file.data.pattern_ids # pattern_ids(pats)

AllTexts(pats) == [i \in 1 .. Len(pats) |-> create_pattern_text(pats[i])]
IdSet(ids) == {ids[i] : i \in 1 .. Len(ids)}

\* C1: build_index() on a searcher whose cache file was written by a build
\* over the same id sequence returns without loading the embedding model and
\* without computing any embedding, and the cached matrix is resident after it.
C1_CacheHit ==
    (/\ last.op = "build_index"
     /\ ~last.args.force
     /\ WrittenFor(last.before.cacheFile, patterns))
    => /\ last.raised = ""
       /\ last.hit
       /\ last.loads = 0
       /\ last.encoded = <<>>
       /\ last.writes = 0
       /\ model = last.before.model
       /\ embeddings = last.before.cacheFile.data.embeddings
       /\ cacheFile = last.before.cacheFile

\* C1's case: a newly constructed searcher ran build_index() on such a cache
\* and still has no model.
C1_Witness ==
    /\ last.op = "build_index"
    /\ ~last.args.force
    /\ WrittenFor(last.before.cacheFile, patterns)
    /\ last.before.embeddings = None
    /\ last.before.model = "None"
    /\ last.hit
    /\ model = "None"
    /\ embeddings # None
    /\ Len(patterns) = MaxN

\* C2: build_index() on a cache file holding an id sequence other than the
\* corpus's adopts nothing of it: when it returns it has encoded every current
\* record, in order, and the resident matrix is those embeddings; when the
\* model cannot be loaded the resident matrix is what it was.
C2_CacheInvalidation ==
    (/\ last.op = "build_index"
     /\ ~last.args.force
     /\ StaleFor(last.before.cacheFile, patterns))
    => /\ ~last.hit
       /\ (last.raised = ""
            => /\ last.encoded = AllTexts(patterns)
               /\ embeddings = Matrix(compute_embeddings(patterns))
               /\ last.writes = 1)
       /\ (last.raised # "" => embeddings = last.before.embeddings)

\* C2's case: the cached ids are the corpus's ids in another order, and the
\* build returned.
C2_Witness ==
    /\ last.op = "build_index"
    /\ ~last.args.force
    /\ StaleFor(last.before.cacheFile, patterns)
    /\ IdSet(last.before.cacheFile.data.pattern_ids) = IdSet(pattern_ids(patterns))
    /\ last.raised = ""
    /\ last.writes = 1

NonIncreasing(result) ==
    \A i \in 1 .. Len(result) - 1 : ScoreGE(result[i].score, result[i + 1].score)

\* C3 as stated: for every integer top_k, a search that returns gives at most
\* top_k results, in non-increasing score order, each at least min_score.
C3_AnyTopK ==
    (last.op = "search" /\ last.raised = "")
    => /\ Len(last.result) <= last.args.top_k
       /\ NonIncreasing(last.result)
       /\ \A i \in 1 .. Len(last.result) :
              ScoreGE(last.result[i].score, last.args.min_score)

\* C3 amended: for every top_k >= 0, a search that returns gives at most
\* top_k results, in non-increasing score order, each at least min_score.
C3_SearchResult ==
    (last.op = "search" /\ last.raised = "" /\ last.args.top_k >= 0)
    => /\ Len(last.result) <= last.args.top_k
       /\ NonIncreasing(last.result)
       /\ \A i \in 1 .. Len(last.result) :
              ScoreGE(last.result[i].score, last.args.min_score)

\* C3's case: a search over two records of different scores that returned
\* both, the higher first.
C3_Witness ==
    /\ last.op = "search"
    /\ last.raised = ""
    /\ last.args.top_k = 2
    /\ Len(last.result) = 2
    /\ last.result[1].score > last.result[2].score

\* The place of the record named id in a result, 0 when it is not in it.
ResultPos(result, id) ==
    IF \E r \in 1 .. Len(result) : result[r].pattern.id = id
    THEN CHOOSE r \in 1 .. Len(result) : result[r].pattern.id = id
    ELSE 0

\* The scores the last search ranked.
SearchScores ==
    cosine_similarity(compute_query_embedding(last.args.query), last.scored.rows)

\* C4: in the result of a search with top_k >= 0, records of equal score
\* keep corpus order: when both are returned the earlier record comes first,
\* and the later record is never returned without the earlier one.
C4_TiesInCorpusOrder ==
    (last.op = "search" /\ last.raised = "" /\ last.args.top_k >= 0)
    => \A i, j \in 1 .. Len(patterns) :
          (i < j /\ SearchScores[i] = SearchScores[j])
          => LET pi == ResultPos(last.result, patterns[i].id)
                 pj == ResultPos(last.result, patterns[j].id)
             IN pj # 0 => (pi # 0 /\ pi < pj)

\* C5: the result of get_similar_patterns(id, top_k) never holds the record
\* whose id is the requested id.
C5_SelfExcluded ==
    (last.op = "get_similar_patterns" /\ last.raised = "")
    => \A r \in 1 .. Len(last.result) : last.result[r].pattern.id # last.args.pattern_id

UnknownId == last.args.pattern_id \notin IdSet(pattern_ids(patterns))

\* C6 as stated: get_similar_patterns with an id of no record always ends in
\* the not-found error (ValueError), whatever the readiness of the searcher.
C6_AlwaysNotFound ==
    (last.op = "get_similar_patterns" /\ UnknownId) => last.raised = "ValueError"

\* C6 amended: get_similar_patterns with an id of no record never returns a
\* result; it ends in the not-found error (ValueError), except that on a
\* searcher with no resident index whose implicit build cannot load the
\* embedding model it ends in that failure, the index still absent.
C6_NotFound ==
    (last.op = "get_similar_patterns" /\ UnknownId)
    => /\ last.raised # ""
       /\ last.result = <<>>
       /\ \/ last.raised = "ValueError"
          \/ /\ last.raised = "ModelLoadError"
             /\ last.before.embeddings = None
             /\ last.before.model = "None"
             /\ ~last.hit
             /\ embeddings = None
       /\ last.before.embeddings # None => last.raised = "ValueError"

\* C6's case: an unknown id on a searcher with no resident index, whose lazy
\* build ran and succeeded before the lookup failed.
C6_Witness ==
    /\ last.op = "get_similar_patterns"
    /\ UnknownId
    /\ last.before.embeddings = None
    /\ last.writes = 1
    /\ last.raised = "ValueError"

\* A cache file build_index() cannot use for the corpus pats.
Unusable(file, pats) ==
    \/ file.kind \in {"absent", "corrupt", "object"}
    \/ /\ file.kind = "dict"
       /\ \/ "pattern_ids" \notin DOMAIN file.data
          \/ "embeddings" \notin DOMAIN file.data
          \/ file.data.pattern_ids # pattern_ids(pats)

\* C7: build_index() on a cache file that is missing, cannot be
\* deserialized, is no mapping, lacks a key or holds another id sequence
\* raises nothing but a failure to load the model, adopts nothing, and when it
\* returns has rebuilt the whole index and written it to the cache.
C7_CacheFailOpen ==
    (/\ last.op = "build_index"
     /\ ~last.args.force
     /\ Unusable(last.before.cacheFile, patterns))
    => /\ last.raised \in {"", "ModelLoadError"}
       /\ ~last.hit
       /\ (last.raised = "ModelLoadError" => last.before.model = "None" /\ last.loads = 1)
       /\ (last.raised = ""
            => /\ last.encoded = AllTexts(patterns)
               /\ embeddings = Matrix(compute_embeddings(patterns))
               /\ cacheFile = save_cache(Self))

\* C7's case: the cache holds the corpus's ids but no embeddings (the
\* KeyError inside _load_cache), and the build returned.
C7_Witness ==
    /\ last.op = "build_index"
    /\ ~last.args.force
    /\ last.before.cacheFile.kind = "dict"
    /\ DOMAIN last.before.cacheFile.data = {"pattern_ids"}
    /\ last.before.cacheFile.data.pattern_ids = pattern_ids(patterns)
    /\ last.raised = ""
    /\ last.writes = 1

\* C8: build_index(force=True) never adopts the cache; when it returns it
\* has encoded every current record in corpus order, the resident matrix is
\* those embeddings, and the cache file holds the corpus's id sequence and
\* that matrix.
C8_ForcedRebuild ==
    (last.op = "build_index" /\ last.args.force)
    => /\ ~last.hit
       /\ (last.raised = ""
            => /\ last.encoded = AllTexts(patterns)
               /\ embeddings = Matrix(compute_embeddings(patterns))
               /\ last.writes = 1
               /\ cacheFile = CacheDict([pattern_ids |-> pattern_ids(patterns),
                                         embeddings |-> embeddings]))

\* C8's case: a forced rebuild over a valid cache whose matrix differs from
\* the one computed.
C8_Witness ==
    /\ last.op = "build_index"
    /\ last.args.force
    /\ last.raised = ""
    /\ WrittenFor(last.before.cacheFile, patterns)
    /\ last.before.cacheFile.data.embeddings # embeddings
    /\ Len(patterns) = MaxN

Query == last.op \in {"search", "get_similar_patterns"}

\* C9: search and get_similar_patterns never score against an absent matrix:
\* a call that returns has scored against the matrix that is resident after
\* it, and on a searcher without an index that matrix was adopted from the
\* cache or built by the call.
C9_IndexBeforeScoring ==
    Query
    => /\ last.raised # "TypeError"
       /\ (last.raised = ""
            => /\ last.scored # None
               /\ last.scored = embeddings
               /\ (last.before.embeddings = None => (last.hit \/ last.writes = 1)))
       /\ (last.raised # "" => last.scored = None)

\* C9's case: a search on a searcher without an index that adopted the
\* cache and returned a record.
C9_Witness ==
    /\ last.op = "search"
    /\ last.before.embeddings = None
    /\ last.hit
    /\ last.raised = ""
    /\ Len(last.result) > 0

\* C10: a search on a searcher whose index is resident leaves the resident
\* matrix, the record list and the cache file as they were.
C10_SearchFrame ==
    (last.op = "search" /\ last.before.embeddings # None)
    => /\ embeddings = last.before.embeddings
       /\ patterns = last.before.patterns
       /\ cacheFile = last.before.cacheFile
       /\ last.writes = 0

\* C10's case: a search on a resident index whose cache file is unusable,
\* and which loaded the model.
C10_Witness ==
    /\ last.op = "search"
    /\ last.before.embeddings # None
    /\ Unusable(cacheFile, patterns)
    /\ last.loads = 1
    /\ last.raised = ""
    /\ Len(last.result) > 0

\* How often the record named id is in a result.
Occurrences(result, id) == Cardinality({r \in 1 .. Len(result) : result[r].pattern.id = id})

\* C11: a search with top_k >= N returns every record whose score is at
\* least min_score exactly once, and no other record.
C11_TopKCoversCorpus ==
    (last.op = "search" /\ last.raised = "" /\ last.args.top_k >= Len(patterns))
    => /\ \A i \in 1 .. Len(patterns) :
              Occurrences(last.result, patterns[i].id)
                  = IF ScoreGE(SearchScores[i], last.args.min_score) THEN 1 ELSE 0
       /\ \A r \in 1 .. Len(last.result) :
              \E i \in 1 .. Len(patterns) :
                  /\ last.result[r].pattern = patterns[i]
                  /\ last.result[r].score = SearchScores[i]

\* C11's case: top_k above the corpus size, one record at exactly min_score
\* returned and one record below min_score left out.
C11_Witness ==
    /\ last.op = "search"
    /\ last.raised = ""
    /\ last.args.top_k > Len(patterns)
    /\ Len(patterns) = MaxN
    /\ Len(last.result) = Len(patterns) - 1
    /\ last.result[Len(last.result)].score = last.args.min_score

\* Every record the top_k cut left out scores no more than any returned one.
CutBelowReturned ==
    \A i \in 1 .. Len(patterns) :
        (/\ Occurrences(last.result, patterns[i].id) = 0
         /\ ScoreGE(SearchScores[i], last.args.min_score))
        => \A r \in 1 .. Len(last.result) : last.result[r].score >= SearchScores[i]

\* The higher-scoring of two records of different scores, as a result entry.
Higher(pats, sims) ==
    IF sims[1] > sims[2] THEN [pattern |-> pats[1], score |-> sims[1]]
    ELSE [pattern |-> pats[2], score |-> sims[2]]

TopOneOfTwo ==
    /\ last.args.top_k = 1
    /\ Len(patterns) = 2
    /\ SearchScores[1] # SearchScores[2]

\* C12 as stated: every record the top_k cut left out scores no more than any
\* returned record, and search(query, top_k=1) (min_score at its default 0)
\* over two records of different scores returns exactly the higher one.
C12_TopOneAlways ==
    (last.op = "search" /\ last.raised = "")
    => /\ CutBelowReturned
       /\ (TopOneOfTwo /\ last.args.min_score = 0)
            => last.result = <<Higher(patterns, SearchScores)>>

\* C12 amended: every record the top_k cut left out scores no more than any
\* returned record, and a search with top_k=1 over two records of different
\* scores returns exactly the higher one when its score is at least
\* min_score, and nothing otherwise.
C12_TopK ==
    (last.op = "search" /\ last.raised = "")
    => /\ CutBelowReturned
       /\ TopOneOfTwo
            => last.result =
                  IF ScoreGE(Higher(patterns, SearchScores).score, last.args.min_score)
                  THEN <<Higher(patterns, SearchScores)>>
                  ELSE <<>>

\* C12's case: top_k=1 over two records of different scores, the second of
\* the corpus the higher and returned.
C12_Witness ==
    /\ last.op = "search"
    /\ last.raised = ""
    /\ TopOneOfTwo
    /\ SearchScores[2] > SearchScores[1]
    /\ last.result = <<[pattern |-> patterns[2], score |-> SearchScores[2]]>>

\* C13: a zero-norm vector (an all-zero query or an all-zero corpus row) does
\* not come out of cosine_similarity as NaN: every affected row scores 0.
C13_ZeroNormScoresZero ==
    cosCall.called
    => \A i \in 1 .. Len(cosCall.b) :
           /\ cosCall.out[i] # NaN
           /\ (Norm(cosCall.a) = 0 \/ Norm(cosCall.b[i]) = 0) => cosCall.out[i] = 0

\* A corpus source that exists, parses, and whose every record has its id.
WellFormedSource(source) ==
    /\ source.kind = "json"
    /\ "patterns" \in DOMAIN source.data
    /\ \A i \in 1 .. Len(source.data.patterns) : "id" \in DOMAIN source.data.patterns[i]

\* C14: PatternSearcher() fails whenever the corpus source is missing or
\* malformed, a record without its id included: a searcher is constructed
\* only over a well-formed source.
C14_MalformedSourceFails ==
    ctor.state = "constructed" => WellFormedSource(ctor.source)

ModelLoadFailed ==
    /\ last.op \in {"build_index", "search"}
    /\ last.raised = "ModelLoadError"

\* C15 as stated: a model load that fails during build_index or search is
\* not retried, and the failed call leaves the resident matrix and the cache
\* file exactly as they were before it.
C15_FailureLeavesAll ==
    ModelLoadFailed
    => /\ last.loads = 1
       /\ embeddings = last.before.embeddings
       /\ cacheFile = last.before.cacheFile

\* C15 amended: a model load that fails during build_index or search is not
\* retried and the failed call leaves the cache file as it was; build_index
\* leaves the resident matrix as it was, and so does search unless it started
\* without a matrix and adopted the one of a valid cache before the load.
C15_ModelLoadFailure ==
    ModelLoadFailed
    => /\ last.loads = 1
       /\ model = "None"
       /\ last.writes = 0
       /\ cacheFile = last.before.cacheFile
       /\ IF last.op = "search" /\ last.before.embeddings = None /\ last.hit
          THEN /\ WrittenFor(last.before.cacheFile, patterns)
               /\ embeddings = last.before.cacheFile.data.embeddings
          ELSE embeddings = last.before.embeddings

\* C15's case: a search that adopted the cached matrix and then failed to
\* load the model.
C15_Witness ==
    /\ ModelLoadFailed
    /\ last.op = "search"
    /\ last.hit
    /\ last.before.embeddings = None
    /\ embeddings # None

\* C16: whenever a matrix is resident, built or adopted from a cache whose
\* ids matched, it has one row per corpus record and row i is the embedding
\* of the i-th record of the corpus.
C16_RowsAreEmbeddings ==
    embeddings # None
    => /\ Len(embeddings.rows) = Len(patterns)
       /\ \A i \in 1 .. Len(patterns) :
              embeddings.rows[i] = encode(create_pattern_text(patterns[i]))

\* A step in which a call runs or hands its outcome to the caller (a new
\* searcher is constructed only between calls).
CallStep == last.op # "idle" \/ last'.op # "idle"

\* C17: once a matrix is resident, no build_index (forced or not, returning
\* or raising), search or get_similar_patterns leaves the searcher without
\* one; a forced build_index that returns has put the matrix computed from
\* the corpus in its place.
C17_ReadyStaysReady ==
    [][(CallStep /\ embeddings # None)
       => /\ embeddings' # None
          /\ (last'.op = "build_index" /\ last'.args.force /\ last'.raised = "")
               => embeddings' = Matrix(compute_embeddings(patterns))]_vars

\* C17's case: a forced build_index over a resident matrix failed to load
\* the model, and one that returned replaced a matrix other than the
\* corpus's own.
C17_Witness ==
    /\ last.op = "build_index"
    /\ last.args.force
    /\ last.before.embeddings # None
    /\ \/ last.raised = "ModelLoadError" /\ embeddings = last.before.embeddings
       \/ last.raised = "" /\ embeddings # last.before.embeddings

\* C18: in one process the embedding model is loaded at most once, by the
\* first call that needs it (a search, or a build that found no usable cache)
\* and not before; every later call computes with that instance and loads
\* nothing.
C18_ModelLoadedOnce ==
    /\ loadCount <= 1
    /\ (loadCount = 1) <=> (model = "model")
    /\ last.loads > 0
         => /\ last.before.model = "None"
            /\ last.loads = 1
            /\ last.op = "search" \/ ~last.hit
    /\ (last.op # "idle" /\ last.before.model = "model")
         => last.loads = 0 /\ model = "model"

\* C18's case: a forced rebuild by a searcher that already holds the model
\* encodes the corpus without another load.
C18_Witness ==
    /\ last.op = "build_index"
    /\ last.raised = ""
    /\ last.before.model = "model"
    /\ last.encoded # <<>>
    /\ last.loads = 0
    /\ loadCount = 1

\* C19: a _load_cache that runs while another caller's _save_cache is
\* writing reads the complete previous content of the file (none, or a whole
\* cache) or the complete new content, never a partly written file.
C19_ReaderSeesWholeFile ==
    \A t \in Callers : seen[t].kind \in {"unread", "absent", "dict"}

\* Caller t is inside build_index; caller t is at a read of the matrix or
\* model reference by search or get_similar_patterns.
InBuild(t) == pc[t].at \in {"load", "model", "compute", "open", "dump"}
QueryReads(t) == pc[t].at \in {"check", "qmodel", "score"}

\* C20: while a build_index is in progress on a searcher no query on the same
\* searcher reads the matrix or the model reference, and no second
\* build_index is running.
C20_BuildExclusive ==
    \A t, u \in Callers :
        (t # u /\ InBuild(t)) => (~QueryReads(u) /\ ~InBuild(u))

\* C21: no build_index, search or get_similar_patterns call, returning or
\* raising, changes the record list of the searcher: the same records in the
\* same order before and after.
C21_CorpusReadOnly ==
    [][CallStep => patterns' = patterns]_vars

\* C21's case: a search over a corpus of MaxN records ran the whole build
\* (model loaded, records encoded, cache written), returned records, and the
\* record list is the one it started with.
C21_Witness ==
    /\ last.op = "search"
    /\ last.raised = ""
    /\ last.writes = 1
    /\ last.loads = 1
    /\ Len(last.result) > 0
    /\ Len(patterns) = MaxN
    /\ patterns = last.before.patterns

\* C22: after a build_index call that returns, by cache hit or by rebuild,
\* the cache file holds the id sequence of the corpus and the resident
\* matrix; a rebuild wrote the file exactly once and a cache hit did not
\* write it.
C22_CacheMatchesResident ==
    (last.op = "build_index" /\ last.raised = "")
    => /\ WrittenFor(cacheFile, patterns)
       /\ cacheFile.data.embeddings = embeddings
       /\ IF last.hit
          THEN last.writes = 0 /\ cacheFile = last.before.cacheFile
          ELSE last.writes = 1

\* C22's case: a build_index() that found a file it could not use (damaged,
\* or written for other ids) rebuilt and wrote the cache once.
C22_Witness ==
    /\ last.op = "build_index"
    /\ ~last.args.force
    /\ last.raised = ""
    /\ last.before.cacheFile.kind # "absent"
    /\ ~WrittenFor(last.before.cacheFile, patterns)
    /\ ~last.hit
    /\ last.writes = 1
    /\ WrittenFor(cacheFile, patterns)

\* The scores the last get_similar_patterns ranked.
SimilarScores ==
    cosine_similarity(last.scored.rows[find_index(patterns, last.args.pattern_id)],
                      last.scored.rows)

C24_SimilarNeedsNoModel ==
    last.op = "get_similar_patterns"
    => /\ (last.before.embeddings # None \/ WrittenFor(last.before.cacheFile, patterns))
            => (last.loads = 0 /\ model = last.before.model)
       /\ last.loads > 0
            => /\ last.before.embeddings = None
               /\ ~last.hit
               /\ last.raised = "ModelLoadError" \/ last.writes = 1

\* C24's case: a get_similar_patterns on a searcher with neither matrix nor
\* model adopted a valid cache and returned results, the model still absent.
C24_Witness ==
    /\ last.op = "get_similar_patterns"
    /\ last.raised = ""
    /\ last.before.embeddings = None
    /\ last.before.model = "None"
    /\ last.hit
    /\ Len(last.result) > 0
    /\ model = "None"

====
